---- MODULE Spec2Model ----
(***************************************************************************)
(* Model of kikuchipy's simulated-feature containers                       *)
(* (kikuchipy/simulations/features.py: KikuchiBand, ZoneAxis) and of the   *)
(* marker helpers (kikuchipy/draw/markers.py).                             *)
(*                                                                         *)
(* Number representation.  Arrays are records [shape, data] with the data  *)
(* in row-major order, as in numpy.  Detector vectors are integer triples  *)
(* <<x, y, z>> in units of 1e-6, so that the cutoff 1e-5 is the integer    *)
(* Eps.  A float that is the quotient of two integers is the pair          *)
(* <<num, den>> (den > 0), <<0, 0>> is not-a-number and <<n, 0>> with      *)
(* n # 0 is an infinity.  Angles are floats in degrees (Pi is 180).  The   *)
(* cosine or sine of a multiple of 30 degrees times an integer is the      *)
(* triple <<a, b, 2>>, the real number (a + b*sqrt(3)) / 2; <<0, 0, 0>>    *)
(* is not-a-number.  The input vectors are axis-aligned in the xy-plane    *)
(* with a non-zero xy-part, and the radii are 1 and 2, which keeps every   *)
(* quantity computed below exactly representable.                          *)
(***************************************************************************)
EXTENDS Integers, Sequences, FiniteSets, TLC

VARIABLES inst, sub, op, exc, ret, markers, calls

vars == <<inst, sub, op, exc, ret, markers, calls>>

(***************************************************************************)
(* Bounds of the model.                                                    *)
(***************************************************************************)
\* Largest length of one navigation axis.
MaxNavLen == 2
\* Number of planes (KikuchiBand) or zone axes (ZoneAxis), the size of hkl.
NumHkl == 2
\* Largest number of markers a signal holds in SpecMarkers.
MaxMarkers == 4

(***************************************************************************)
(* Program constants.                                                      *)
(***************************************************************************)
\* 1e-5 in units of 1e-6: the tolerance of is_full_upper.
Eps == 10
\* np.pi in degrees.
Pi == 180

NaN == <<0, 0>>
NaNCoord == <<0, 0, 0>>

AbsInt(i) == IF i < 0 THEN -i ELSE i

(***************************************************************************)
(* Exceptions and the absent instance.                                     *)
(***************************************************************************)
Raise(kind) == [exc |-> kind]
IsError(x) == DOMAIN x = {"exc"}
NoInstance == [cls |-> "None"]

(***************************************************************************)
(* numpy arrays.                                                           *)
(***************************************************************************)
RECURSIVE Prod(_)
Prod(shape) ==
    IF shape = <<>> THEN 1 ELSE Head(shape) * Prod(Tail(shape))

Suffix(shape, k) == SubSeq(shape, k + 1, Len(shape))

\* The multi-index (0-based) of the 0-based flat index f in an array of shape.
Unravel(f, shape) ==
    [k \in 1..Len(shape) |-> (f \div Prod(Suffix(shape, k))) % shape[k]]

RECURSIVE RavelFrom(_, _, _)
RavelFrom(idx, shape, k) ==
    IF k > Len(shape) THEN 0
    ELSE idx[k] * Prod(Suffix(shape, k)) + RavelFrom(idx, shape, k + 1)

\* The 0-based flat index of the multi-index idx.
Ravel(idx, shape) == RavelFrom(idx, shape, 1)

\* np.asarray of a Python scalar.
AsArray0(v) == [shape |-> <<>>, data |-> <<v>>]

\* v * np.ones(shape)
Full(shape, v) == [shape |-> shape, data |-> [i \in 1..Prod(shape) |-> v]]

\* ndarray.reshape: ValueError unless the sizes agree.
Reshape(a, shape) ==
    IF Prod(shape) = Len(a.data)
    THEN [shape |-> shape, data |-> a.data]
    ELSE Raise("ValueError")

\* np.atleast_2d
AtLeast2d(a) ==
    CASE Len(a.shape) = 0 -> [shape |-> <<1, 1>>, data |-> a.data]
      [] Len(a.shape) = 1 -> [shape |-> <<1>> \o a.shape, data |-> a.data]
      [] OTHER -> a

\* a[..., np.newaxis]
NewAxis(a) == [shape |-> a.shape \o <<1>>, data |-> a.data]

\* a[np.newaxis, ...]
NewAxisFront(a) == [shape |-> <<1>> \o a.shape, data |-> a.data]

(***************************************************************************)
(* Basic indexing a[key].  A key is a record: kind "int" with a tuple idx  *)
(* of 0-based integers indexing the leading axes (the empty tuple is the   *)
(* key ()), or kind "slice" with bounds lo:hi on the first axis.           *)
(***************************************************************************)
IntKey(idx) == [kind |-> "int", idx |-> idx, lo |-> 0, hi |-> 0]
SliceKey(lo, hi) == [kind |-> "slice", idx |-> <<>>, lo |-> lo, hi |-> hi]

GetItem(a, key) ==
    IF key.kind = "int"
    THEN LET k == Len(key.idx)
         IN  IF k > Len(a.shape)
                \/ \E j \in 1..k : key.idx[j] < 0 \/ key.idx[j] >= a.shape[j]
             THEN Raise("IndexError")
             ELSE LET rest == Suffix(a.shape, k)
                      width == Prod(rest)
                      first == Ravel(key.idx, SubSeq(a.shape, 1, k)) * width
                  IN  [shape |-> rest,
                       data |-> SubSeq(a.data, first + 1, first + width)]
    ELSE IF Len(a.shape) = 0
         THEN Raise("IndexError")
         ELSE LET width == Prod(Tail(a.shape))
                  lo == IF key.lo > a.shape[1] THEN a.shape[1] ELSE key.lo
                  hi == IF key.hi > a.shape[1] THEN a.shape[1] ELSE key.hi
                  len == IF hi > lo THEN hi - lo ELSE 0
              IN  [shape |-> <<len>> \o Tail(a.shape),
                   data |-> SubSeq(a.data, lo * width + 1, (lo + len) * width)]

(***************************************************************************)
(* Broadcasting of two shapes (numpy's rule: align right, a 1 stretches).  *)
(***************************************************************************)
Pad(shape, n) == [k \in 1..(n - Len(shape)) |-> 1] \o shape

MaxInt(i, j) == IF i > j THEN i ELSE j

BroadcastOk(s, t) ==
    LET n == MaxInt(Len(s), Len(t))
    IN  \A k \in 1..n :
            Pad(s, n)[k] = Pad(t, n)[k] \/ Pad(s, n)[k] = 1 \/ Pad(t, n)[k] = 1

BroadcastShape(s, t) ==
    LET n == MaxInt(Len(s), Len(t))
    IN  [k \in 1..n |-> MaxInt(Pad(s, n)[k], Pad(t, n)[k])]

\* The element of a that the 0-based flat index f of the broadcast result
\* of shape rshape reads.
BElem(a, f, rshape) ==
    LET midx == Unravel(f, rshape)
        off == Len(rshape) - Len(a.shape)
        aidx == [k \in 1..Len(a.shape) |->
                    IF a.shape[k] = 1 THEN 0 ELSE midx[k + off]]
    IN  a.data[Ravel(aidx, a.shape) + 1]

(***************************************************************************)
(* Floating-point values (see the head of the module) and the numpy and    *)
(* orix functions the two classes apply to them.                           *)
(***************************************************************************)
Sign(i) == IF i > 0 THEN 1 ELSE IF i < 0 THEN -1 ELSE 0

\* n / d for integers n and d, as numpy divides floats (x/0 is inf or nan).
Frac(n, d) ==
    IF d = 0 THEN <<Sign(n), 0>>
    ELSE IF d < 0 THEN <<-n, -d>> ELSE <<n, d>>

IsNaN(q) == q = NaN
IsFinite(q) == q[2] # 0

\* The integer r with r * r = x * x + y * y (the inputs keep it an integer).
Rho(v) ==
    IF v[1] = 0 THEN AbsInt(v[2])
    ELSE IF v[2] = 0 THEN AbsInt(v[1])
    ELSE CHOOSE r \in 0..(AbsInt(v[1]) + AbsInt(v[2])) :
            r * r = v[1] * v[1] + v[2] * v[2]

\* np.tan(0.5 * np.pi - theta) for the polar angle theta of v: the
\* cotangent of theta, z / sqrt(x^2 + y^2).
TanHalfPiMinusTheta(v) == Frac(v[3], Rho(v))

\* Vector3d.phi: np.arctan2(y, x), in degrees.
PhiOf(v) ==
    CASE v[2] = 0 /\ v[1] > 0 -> <<0, 1>>
      [] v[1] = 0 /\ v[2] > 0 -> <<90, 1>>
      [] v[2] = 0 /\ v[1] < 0 -> <<180, 1>>
      [] v[1] = 0 /\ v[2] < 0 -> <<-90, 1>>

\* The polar angle of v in degrees, where it is a whole number of them.
ThetaOf(v) ==
    CASE v[3] = 0 -> <<90, 1>>
      [] v[3] > 0 /\ Rho(v) = 0 -> <<0, 1>>
      [] v[3] > 0 /\ Rho(v) = v[3] -> <<45, 1>>
      [] v[3] < 0 /\ Rho(v) = -v[3] -> <<135, 1>>
      [] v[3] < 0 /\ Rho(v) = 0 -> <<180, 1>>

\* np.abs
AbsF(q) == <<AbsInt(q[1]), q[2]>>

\* q < r for a float q and an integer r; a comparison with nan is False.
LessFI(q, r) ==
    IF IsNaN(q) THEN FALSE
    ELSE IF q[2] = 0 THEN q[1] < 0
    ELSE q[1] < r * q[2]

\* q / r for a float q and an integer r.
DivFI(q, r) ==
    IF IsNaN(q) THEN NaN
    ELSE IF q[2] = 0 THEN (IF r = 0 THEN NaN ELSE <<q[1] * Sign(r), 0>>)
    ELSE IF r = 0 THEN <<Sign(q[1]), 0>>
    ELSE IF r < 0 THEN <<-q[1], q[2] * (-r)>> ELSE <<q[1], q[2] * r>>

\* np.arccos, in degrees: nan for nan and outside [-1, 1]; the quotients
\* the inputs produce inside [-1, 1] are 0, +-1/2 and +-1.
ArcCos(q) ==
    CASE q[2] = 0 -> NaN
      [] q[2] # 0 /\ AbsInt(q[1]) > q[2] -> NaN
      [] q[2] # 0 /\ q[1] = q[2] -> <<0, 1>>
      [] q[2] # 0 /\ 2 * q[1] = q[2] -> <<60, 1>>
      [] q[2] # 0 /\ q[1] = 0 -> <<90, 1>>
      [] q[2] # 0 /\ 2 * q[1] = -q[2] -> <<120, 1>>
      [] q[2] # 0 /\ q[1] = -q[2] -> <<180, 1>>

\* a + b and a - b for angles in whole degrees; nan propagates.
AddF(a, b) == IF IsNaN(a) \/ IsNaN(b) THEN NaN ELSE <<a[1] + b[1], 1>>
SubF(a, b) == IF IsNaN(a) \/ IsNaN(b) THEN NaN ELSE <<a[1] - b[1], 1>>

\* cos of k * 30 degrees, twice its rational and its sqrt(3) part.
CosTable ==
    <<  <<2, 0>>, <<0, 1>>, <<1, 0>>, <<0, 0>>, <<-1, 0>>, <<0, -1>>,
        <<-2, 0>>, <<0, -1>>, <<-1, 0>>, <<0, 0>>, <<1, 0>>, <<0, 1>> >>

\* np.cos and np.sin of an angle that is a multiple of 30 degrees.
CosF(a) ==
    IF IsNaN(a) THEN NaNCoord
    ELSE LET c == CosTable[((a[1] % 360) \div 30) + 1]
         IN  <<c[1], c[2], 2>>

SinF(a) == IF IsNaN(a) THEN NaNCoord ELSE CosF(<<a[1] - 90, 1>>)

\* r * c for an integer r and a coordinate c.
ScaleCoord(r, c) ==
    IF c = NaNCoord THEN NaNCoord ELSE <<r * c[1], r * c[2], 2>>

\* -q
NegF(q) == IF IsNaN(q) THEN NaN ELSE <<-q[1], q[2]>>

\* q * c for a float q and the cosine or sine c of a multiple of 90 degrees.
MulFC(q, c) ==
    IF IsNaN(q) \/ c = NaNCoord THEN NaN ELSE <<q[1] * (c[1] \div 2), q[2]>>

(***************************************************************************)
(* KikuchiBand.  An instance is a record of its stored attributes:         *)
(* hkl_detector is the Vector3d, an array of vectors of shape              *)
(* navigation_shape + (n,); in_pattern an array of booleans;               *)
(* gnomonic_radius an array of integers.  An operation that may raise      *)
(* returns [obj, exc]: the instance afterwards and the exception.          *)
(*                                                                         *)
(* Every derived property is a whole-array expression of numpy; it is      *)
(* computed here entry by entry: the expression's value for one detector   *)
(* vector v and the radius r that broadcasting pairs with it.              *)
(***************************************************************************)
\* An attribute that has not been assigned yet.
Unset == Raise("AttributeError")

Outcome(obj, e) == [obj |-> obj, exc |-> e]

\* KikuchiBand.navigation_shape
NavigationShape(b) == SubSeq(b.hkl_detector.shape, 1, Len(b.hkl_detector.shape) - 1)

\* KikuchiBand.navigation_dimension
NavigationDimension(b) == Len(NavigationShape(b))

\* ReciprocalLatticePoint.size
Size(b) == Len(b.hkl)

\* r * np.ones(shape) for an array r.
TimesOnes(r, shape) ==
    IF ~BroadcastOk(r.shape, shape) THEN Raise("ValueError")
    ELSE LET rshape == BroadcastShape(r.shape, shape)
         IN  [shape |-> rshape,
              data |-> [i \in 1..Prod(rshape) |-> BElem(r, i - 1, rshape)]]

\* KikuchiBand.gnomonic_radius (setter)
BandSetRadius(b, value) ==
    LET r == value
        nav == NavigationShape(b)
        first == IF Len(r.data) = 1
                 THEN [b EXCEPT !.gnomonic_radius = TimesOnes(r, nav)]
                 ELSE b
        reshaped == Reshape(r, nav)
    IN  IF IsError(reshaped)
        THEN Outcome(first, reshaped.exc)
        ELSE Outcome([first EXCEPT !.gnomonic_radius = reshaped], "none")

\* KikuchiBand.__init__
NewKikuchiBand(phase, hkl, hkl_detector, in_pattern, gnomonic_radius) ==
    LET made == BandSetRadius(
                    [cls |-> "KikuchiBand", phase |-> phase, hkl |-> hkl,
                     hkl_detector |-> hkl_detector,
                     in_pattern |-> AtLeast2d(in_pattern),
                     gnomonic_radius |-> Unset],
                    gnomonic_radius)
    IN  IF made.exc = "none" THEN made ELSE Outcome(NoInstance, made.exc)

\* KikuchiBand.__getitem__
BandGetItem(b, key) ==
    LET hd == GetItem(b.hkl_detector, key)
        ip == GetItem(b.in_pattern, key)
    IN  IF IsError(hd) THEN Outcome(NoInstance, hd.exc)
        ELSE IF IsError(ip) THEN Outcome(NoInstance, ip.exc)
        ELSE NewKikuchiBand(b.phase, b.hkl, hd, ip, b.gnomonic_radius)

\* hesse_distance, for one vector.
HesseDistanceAt(v) == TanHalfPiMinusTheta(v)

\* is_full_upper with the tolerance itself admitted (z >= -1e-5).
IsFullUpperAtInclusive(v) == v[3] >= -Eps

\* is_full_upper, for one vector.
IsFullUpperAt(v) == v[3] > -Eps

\* within_gnomonic_radius, for one vector and its radius.
WithinAt(v, r) ==
    LET is_full_upper == IsFullUpperAt(v)
        in_circle == LessFI(AbsF(HesseDistanceAt(v)), r)
    IN  in_circle /\ is_full_upper

\* hesse_alpha without the masking assignment.
MaskedDistanceAtUnmasked(v, r) == HesseDistanceAt(v)

\* hesse_distance[~self.within_gnomonic_radius] = np.nan, for one entry.
MaskedDistanceAt(v, r) ==
    IF ~WithinAt(v, r) THEN NaN ELSE HesseDistanceAt(v)

\* hesse_alpha, for one vector and its radius.
HesseAlphaAt(v, r) == ArcCos(DivFI(MaskedDistanceAt(v, r), r))

\* The value written to plane_trace[..., c] (lines 171 to 174).
PlaneTraceComponent(c, alpha1, alpha2) ==
    CASE c = 0 -> CosF(alpha1)
      [] c = 1 -> CosF(alpha2)
      [] c = 2 -> SinF(alpha1)
      [] c = 3 -> SinF(alpha2)

\* plane_trace_coordinates[..., c], for one vector and its radius.
PlaneTraceAt(v, r, c) ==
    LET phi == PhiOf(v)
        hesse_alpha == HesseAlphaAt(v, r)
        alpha1 == AddF(SubF(phi, <<Pi, 1>>), hesse_alpha)
        alpha2 == SubF(SubF(phi, <<Pi, 1>>), hesse_alpha)
    IN  ScaleCoord(r, PlaneTraceComponent(c, alpha1, alpha2))

\* The properties that read the detector vectors alone.
VectorValue(f, v) ==
    CASE f = "x_detector" -> v[1]
      [] f = "y_detector" -> v[2]
      [] f = "z_detector" -> v[3]
      [] f = "x_gnomonic" -> Frac(v[1], v[3])
      [] f = "y_gnomonic" -> Frac(v[2], v[3])
      [] f = "hesse_distance" -> HesseDistanceAt(v)
      [] f = "hesse_line_x" -> MulFC(NegF(HesseDistanceAt(v)), CosF(PhiOf(v)))
      [] f = "hesse_line_y" -> MulFC(NegF(HesseDistanceAt(v)), SinF(PhiOf(v)))
      [] f = "r_gnomonic" -> Frac(Rho(v), v[3])
      [] f = "theta_polar" -> ThetaOf(v)

PerVector(f, a) ==
    [shape |-> a.shape,
     data |-> [i \in 1..Len(a.data) |-> VectorValue(f, a.data[i])]]

\* The properties that pair each vector with gnomonic_radius[..., np.newaxis].
EntryValue(f, v, r) ==
    CASE f = "within_gnomonic_radius" -> WithinAt(v, r)
      [] f = "hesse_alpha" -> HesseAlphaAt(v, r)
      [] f = "zone_within" -> LessFI(Frac(Rho(v), v[3]), r)

\* ValueError when the vectors' and the radii's shapes do not broadcast.
PerEntry(f, vectors, radii) ==
    IF ~BroadcastOk(vectors.shape, radii.shape) THEN Raise("ValueError")
    ELSE LET rshape == BroadcastShape(vectors.shape, radii.shape)
         IN  [shape |-> rshape,
              data |-> [i \in 1..Prod(rshape) |->
                          EntryValue(f, BElem(vectors, i - 1, rshape),
                                        BElem(radii, i - 1, rshape))]]

\* KikuchiBand.x_detector, y_detector, z_detector
BandXDetector(b) == PerVector("x_detector", b.hkl_detector)
BandYDetector(b) == PerVector("y_detector", b.hkl_detector)
BandZDetector(b) == PerVector("z_detector", b.hkl_detector)

\* KikuchiBand.x_gnomonic, y_gnomonic
BandXGnomonic(b) == PerVector("x_gnomonic", b.hkl_detector)
BandYGnomonic(b) == PerVector("y_gnomonic", b.hkl_detector)

\* KikuchiBand.hesse_distance
HesseDistance(b) == PerVector("hesse_distance", b.hkl_detector)

\* KikuchiBand.within_gnomonic_radius
WithinGnomonicRadius(b) ==
    PerEntry("within_gnomonic_radius", b.hkl_detector, NewAxis(b.gnomonic_radius))

\* KikuchiBand.hesse_alpha
HesseAlpha(b) ==
    PerEntry("hesse_alpha", b.hkl_detector, NewAxis(b.gnomonic_radius))

\* KikuchiBand.plane_trace_coordinates: np.zeros(navigation_shape +
\* (size, 4)), filled along its last axis and multiplied by
\* gnomonic_radius[..., np.newaxis, np.newaxis].
PlaneTraceCoordinates(b) ==
    LET shape == NavigationShape(b) \o <<Size(b), 4>>
        gnomonic_radius == NewAxis(NewAxis(b.gnomonic_radius))
    IN  IF IsError(HesseAlpha(b)) THEN HesseAlpha(b)
        ELSE IF HesseAlpha(b).shape # NavigationShape(b) \o <<Size(b)>>
                \/ ~BroadcastOk(shape, gnomonic_radius.shape)
                \/ BroadcastShape(shape, gnomonic_radius.shape) # shape
        THEN Raise("ValueError")
        ELSE [shape |-> shape,
              data |-> [i \in 1..Prod(shape) |->
                          PlaneTraceAt(b.hkl_detector.data[((i - 1) \div 4) + 1],
                                       BElem(gnomonic_radius, i - 1, shape),
                                       (i - 1) % 4)]]

\* KikuchiBand.hesse_line_x, hesse_line_y
HesseLineX(b) == PerVector("hesse_line_x", b.hkl_detector)
HesseLineY(b) == PerVector("hesse_line_y", b.hkl_detector)

(***************************************************************************)
(* ZoneAxis.  coordinates is an array of vectors of shape                  *)
(* coordinates.shape[:-1].                                                 *)
(***************************************************************************)
\* The names bound in the namespace of features.py: its imports and its
\* two classes.
ModuleGlobals ==
    {"Union", "ReciprocalLatticePoint", "np", "Phase", "Vector3d",
     "KikuchiBand", "ZoneAxis"}

\* ZoneAxis.gnomonic_radius (setter)
ZoneSetRadius(z, value) ==
    LET r == value
    IN  IF Len(r.shape) = 1
        THEN Outcome([z EXCEPT !.gnomonic_radius = NewAxis(r)], "none")
        ELSE Outcome([z EXCEPT !.gnomonic_radius = r], "none")

\* ZoneAxis.__init__; coordinates.ndim counts the axis of length 3 too.
NewZoneAxis(phase, hkl, coordinates, in_pattern, gnomonic_radius) ==
    ZoneSetRadius(
        [cls |-> "ZoneAxis", phase |-> phase, hkl |-> hkl,
         coordinates |-> IF Len(coordinates.shape) + 1 = 2
                         THEN NewAxisFront(coordinates)
                         ELSE coordinates,
         in_pattern |-> AtLeast2d(in_pattern),
         gnomonic_radius |-> Unset],
        gnomonic_radius)

\* ZoneAxis.__getitem__
ZoneGetItem(z, key) ==
    LET co == GetItem(z.coordinates, key)
        ip == GetItem(z.in_pattern, key)
    IN  IF IsError(co) THEN Outcome(NoInstance, co.exc)
        ELSE IF IsError(ip) THEN Outcome(NoInstance, ip.exc)
        ELSE NewZoneAxis(z.phase, z.hkl, co, ip, z.gnomonic_radius)

\* ZoneAxis.x_detector, y_detector, z_detector
ZoneXDetector(z) == PerVector("x_detector", z.coordinates)
ZoneYDetector(z) == PerVector("y_detector", z.coordinates)
ZoneZDetector(z) == PerVector("z_detector", z.coordinates)

\* ZoneAxis.r_gnomonic: get_r is looked up in the module's namespace when
\* the property is read.
ZoneRGnomonic(z) ==
    IF "get_r" \notin ModuleGlobals THEN Raise("NameError")
    ELSE PerVector("r_gnomonic", z.coordinates)

\* ZoneAxis.theta_polar
ZoneThetaPolar(z) ==
    IF "get_theta" \notin ModuleGlobals THEN Raise("NameError")
    ELSE PerVector("theta_polar", z.coordinates)

\* ZoneAxis.within_gnomonic_radius
ZoneWithinGnomonicRadius(z) ==
    IF IsError(ZoneRGnomonic(z)) THEN ZoneRGnomonic(z)
    ELSE PerEntry("zone_within", z.coordinates, z.gnomonic_radius)

\* a[mask] for a boolean mask of a's shape: the selected entries, flattened.
RECURSIVE Selected(_, _, _)
Selected(data, mask, i) ==
    IF i > Len(data) THEN <<>>
    ELSE (IF mask[i] THEN <<data[i]>> ELSE <<>>) \o Selected(data, mask, i + 1)

BoolIndex(a, mask) ==
    IF mask.shape # a.shape THEN Raise("IndexError")
    ELSE [shape |-> <<Len(Selected(a.data, mask.data, 1))>>,
          data |-> Selected(a.data, mask.data, 1)]

\* ZoneAxis.x_gnomonic, y_gnomonic
ZoneXGnomonic(z) ==
    IF IsError(ZoneWithinGnomonicRadius(z)) THEN ZoneWithinGnomonicRadius(z)
    ELSE IF IsError(BoolIndex(z.coordinates, ZoneWithinGnomonicRadius(z)))
    THEN Raise("IndexError")
    ELSE PerVector("x_gnomonic",
                   BoolIndex(z.coordinates, ZoneWithinGnomonicRadius(z)))

ZoneYGnomonic(z) ==
    IF IsError(ZoneWithinGnomonicRadius(z)) THEN ZoneWithinGnomonicRadius(z)
    ELSE IF IsError(BoolIndex(z.coordinates, ZoneWithinGnomonicRadius(z)))
    THEN Raise("IndexError")
    ELSE PerVector("y_gnomonic",
                   BoolIndex(z.coordinates, ZoneWithinGnomonicRadius(z)))

(***************************************************************************)
(* Reading a property of an instance: the value returned (or the exception *)
(* raised), and the instance afterwards.                                   *)
(***************************************************************************)
BandProperties ==
    {"x_detector", "y_detector", "z_detector", "x_gnomonic", "y_gnomonic",
     "hesse_distance", "within_gnomonic_radius", "hesse_alpha",
     "plane_trace_coordinates", "hesse_line_x", "hesse_line_y"}

ZoneProperties ==
    {"x_detector", "y_detector", "z_detector", "x_gnomonic", "y_gnomonic",
     "r_gnomonic", "theta_polar", "within_gnomonic_radius"}

PropertiesOf(o) == IF o.cls = "KikuchiBand" THEN BandProperties ELSE ZoneProperties

BandProperty(b, prop) ==
    CASE prop = "x_detector" -> BandXDetector(b)
      [] prop = "y_detector" -> BandYDetector(b)
      [] prop = "z_detector" -> BandZDetector(b)
      [] prop = "x_gnomonic" -> BandXGnomonic(b)
      [] prop = "y_gnomonic" -> BandYGnomonic(b)
      [] prop = "hesse_distance" -> HesseDistance(b)
      [] prop = "within_gnomonic_radius" -> WithinGnomonicRadius(b)
      [] prop = "hesse_alpha" -> HesseAlpha(b)
      [] prop = "plane_trace_coordinates" -> PlaneTraceCoordinates(b)
      [] prop = "hesse_line_x" -> HesseLineX(b)
      [] prop = "hesse_line_y" -> HesseLineY(b)

ZoneProperty(z, prop) ==
    CASE prop = "x_detector" -> ZoneXDetector(z)
      [] prop = "y_detector" -> ZoneYDetector(z)
      [] prop = "z_detector" -> ZoneZDetector(z)
      [] prop = "x_gnomonic" -> ZoneXGnomonic(z)
      [] prop = "y_gnomonic" -> ZoneYGnomonic(z)
      [] prop = "r_gnomonic" -> ZoneRGnomonic(z)
      [] prop = "theta_polar" -> ZoneThetaPolar(z)
      [] prop = "within_gnomonic_radius" -> ZoneWithinGnomonicRadius(z)

Property(o, prop) ==
    IF o.cls = "KikuchiBand" THEN BandProperty(o, prop) ELSE ZoneProperty(o, prop)

\* A getter of within_gnomonic_radius that writes its result over the
\* stored in_pattern (np.logical_and(..., out=self._in_pattern)).
AfterReadWritingMask(o, prop) ==
    IF o.cls = "KikuchiBand" /\ prop = "within_gnomonic_radius"
    THEN [o EXCEPT !.in_pattern = WithinGnomonicRadius(o)]
    ELSE o

\* The instance after a property getter ran: no getter assigns to self, and
\* hesse_alpha writes its nan into the array hesse_distance just computed.
AfterRead(o, prop) == o

\* The setter and __getitem__ of the instance's class.
SetRadius(o, value) ==
    IF o.cls = "KikuchiBand" THEN BandSetRadius(o, value) ELSE ZoneSetRadius(o, value)

Index(o, key) ==
    IF o.cls = "KikuchiBand" THEN BandGetItem(o, key) ELSE ZoneGetItem(o, key)

(***************************************************************************)
(* markers.get_line_segment_list.  A line_segment marker is the record of  *)
(* the four arrays it is given.                                            *)
(***************************************************************************)
\* lines[..., i, c]
LinesComponent(lines, i, c) ==
    LET lead == SubSeq(lines.shape, 1, Len(lines.shape) - 2)
        n == lines.shape[Len(lines.shape) - 1]
    IN  [shape |-> lead,
         data |-> [p \in 1..Prod(lead) |->
                     lines.data[((p - 1) * n + i) * 4 + c + 1]]]

\* lines = np.asarray(lines); a single line gets a leading axis.
AsLines(lines) == IF Len(lines.shape) = 1 THEN NewAxisFront(lines) ELSE lines

GetLineSegmentList(lines) ==
    [i \in 1..AsLines(lines).shape[Len(AsLines(lines).shape) - 1] |->
        [x1 |-> LinesComponent(AsLines(lines), i - 1, 0),
         y1 |-> LinesComponent(AsLines(lines), i - 1, 1),
         x2 |-> LinesComponent(AsLines(lines), i - 1, 2),
         y2 |-> LinesComponent(AsLines(lines), i - 1, 3)]]

(***************************************************************************)
(* markers.permanent_on_signal.  The metadata of a signal: whether it has  *)
(* a Markers node, and the node's items, a function from the number j of   *)
(* the key "marker<j>" to the marker stored under it.                      *)
(***************************************************************************)
EmptyNode == [j \in {} |-> "none"]

\* if not hasattr(signal.metadata, "Markers"): add_node("Markers")
EnsureNode(md) ==
    IF md.has THEN md ELSE [has |-> TRUE, items |-> EmptyNode]

\* An n_extra that ignores the markers the node already holds.
NExtraZero(md) == 0

\* len(signal.metadata.Markers)
NExtra(md) == Cardinality(DOMAIN md.items)

\* signal.metadata.Markers[f"marker{j}"] = marker
SetMarker(items, j, marker) ==
    [k \in DOMAIN items \cup {j} |-> IF k = j THEN marker ELSE items[k]]

RECURSIVE AddMarkers(_, _, _, _)
AddMarkers(items, marker_list, i, n_extra) ==
    IF i >= Len(marker_list) THEN items
    ELSE AddMarkers(SetMarker(items, i + n_extra, marker_list[i + 1]),
                    marker_list, i + 1, n_extra)

PermanentOnSignal(md, marker_list) ==
    LET node == EnsureNode(md)
        n_extra == NExtra(node)
    IN  [has |-> TRUE, items |-> AddMarkers(node.items, marker_list, 0, n_extra)]

(***************************************************************************)
(* The inputs the operations are called with.                              *)
(***************************************************************************)
\* The phase the instances are constructed with.
Phases == {"ni"}

\* Detector vectors: Hesse distance 1, 0 and -1 (the last with z inside the
\* tolerance below the equator), z exactly at the tolerance, distance 2, and
\* z = -1 on the far hemisphere.
Vecs ==
    <<  <<5, 0, 5>>, <<0, 5, 0>>, <<0, 5, -5>>, <<-10, 0, -10>>,
        <<0, -5, 10>>, <<0, -1000000, -1000000>> >>

Seeds == {0, 3}

Radii == <<1, 2>>

NavShapes ==
    {<<>>} \cup {<<a>> : a \in 1..MaxNavLen}
           \cup {<<a, b>> : a \in 1..MaxNavLen, b \in 1..MaxNavLen}

Hkl == [i \in 1..NumHkl |-> <<i, 0, 0>>]

\* Detector coordinates of shape nav + (NumHkl, 3).
HklDetectorInput(nav, seed) ==
    [shape |-> nav \o <<NumHkl>>,
     data |-> [i \in 1..(Prod(nav) * NumHkl) |->
                 Vecs[((seed + i - 1) % Len(Vecs)) + 1]]]

\* A boolean array of shape nav + (NumHkl,).
InPatternInput(nav) ==
    [shape |-> nav \o <<NumHkl>>,
     data |-> [i \in 1..(Prod(nav) * NumHkl) |-> i % 3 # 0]]

\* One radius per pattern, of shape nav.
RadiusArray(nav, s) ==
    [shape |-> nav, data |-> [i \in 1..Prod(nav) |-> Radii[((i + s) % 2) + 1]]]

\* The values gnomonic_radius is given: a scalar, or an array of shape nav.
RadiusArgs(nav) ==
    {AsArray0(Radii[k]) : k \in 1..Len(Radii)} \cup {RadiusArray(nav, 1)}

\* The shape of the stored coordinates without the axes of hkl and of xyz.
NavOf(o) ==
    IF o.cls = "KikuchiBand" THEN NavigationShape(o)
    ELSE SubSeq(o.coordinates.shape, 1, Len(o.coordinates.shape) - 1)

\* The navigation keys of an instance with navigation shape nav.
Keys(nav) ==
    {IntKey(idx) : idx \in
        UNION {{i \in [1..k -> 0..(MaxNavLen - 1)] :
                    \A j \in 1..k : i[j] < nav[j]} : k \in 0..Len(nav)}}
    \cup (IF nav = <<>> THEN {}
          ELSE {SliceKey(b[1], b[2]) :
                    b \in {c \in (0..nav[1]) \X (0..nav[1]) : c[1] < c[2]}})

Targets == {"inst", "sub"}

NoValue == [shape |-> <<>>, data |-> <<>>]

Op(name, target, cls, nav, arg) ==
    [name |-> name, target |-> target, cls |-> cls, nav |-> nav, arg |-> arg]

(***************************************************************************)
(* The state: inst is the instance constructed, sub the instance the last  *)
(* successful indexing of inst returned, op the last operation, exc the    *)
(* exception it raised ("none" if none) and ret the value the last         *)
(* property read returned.  markers is the metadata of a signal and calls  *)
(* the markers passed to permanent_on_signal so far, in call order.        *)
(***************************************************************************)
NoMarkers == [has |-> FALSE, items |-> EmptyNode]

Init ==
    /\ inst = NoInstance
    /\ sub = NoInstance
    /\ op = Op("init", "inst", "None", <<>>, <<>>)
    /\ exc = "none"
    /\ ret = NoValue
    /\ markers = NoMarkers
    /\ calls = <<>>

\* KikuchiBand(phase, hkl, hkl_detector, in_pattern, gnomonic_radius)
ConstructBand ==
    /\ inst = NoInstance
    /\ \E phase \in Phases, nav \in NavShapes, seed \in Seeds :
         \E value \in RadiusArgs(nav) :
            LET made == NewKikuchiBand(phase, Hkl, HklDetectorInput(nav, seed),
                                       InPatternInput(nav), value)
            IN  /\ inst' = made.obj
                /\ exc' = made.exc
                /\ op' = Op("construct", "inst", "KikuchiBand", nav, value)
    /\ ret' = NoValue
    /\ UNCHANGED <<sub, markers, calls>>

\* ZoneAxis(phase, hkl, coordinates, in_pattern, gnomonic_radius)
ConstructZone ==
    /\ inst = NoInstance
    /\ \E phase \in Phases, nav \in NavShapes, seed \in Seeds :
         \E value \in RadiusArgs(nav) :
            LET made == NewZoneAxis(phase, Hkl, HklDetectorInput(nav, seed),
                                    InPatternInput(nav), value)
            IN  /\ inst' = made.obj
                /\ exc' = made.exc
                /\ op' = Op("construct", "inst", "ZoneAxis", nav, value)
    /\ ret' = NoValue
    /\ UNCHANGED <<sub, markers, calls>>

Slot(t) == IF t = "inst" THEN inst ELSE sub

\* instance.gnomonic_radius = value
AssignRadius ==
    /\ \E t \in Targets :
         /\ Slot(t) # NoInstance
         /\ \E value \in RadiusArgs(NavOf(Slot(t))) :
              LET done == SetRadius(Slot(t), value)
              IN  /\ inst' = IF t = "inst" THEN done.obj ELSE inst
                  /\ sub' = IF t = "sub" THEN done.obj ELSE sub
                  /\ exc' = done.exc
                  /\ op' = Op("set_radius", t, Slot(t).cls, NavOf(Slot(t)), value)
    /\ ret' = NoValue
    /\ UNCHANGED <<markers, calls>>

\* sub = inst[key]
GetItemStep ==
    /\ inst # NoInstance
    /\ \E key \in Keys(NavOf(inst)) :
         LET got == Index(inst, key)
         IN  /\ sub' = IF got.exc = "none" THEN got.obj ELSE sub
             /\ exc' = got.exc
             /\ op' = Op("getitem", "inst", inst.cls, NavOf(inst), key)
    /\ ret' = NoValue
    /\ UNCHANGED <<inst, markers, calls>>

\* instance.<property>
ReadProperty ==
    /\ \E t \in Targets :
         /\ Slot(t) # NoInstance
         /\ \E prop \in PropertiesOf(Slot(t)) :
              LET value == Property(Slot(t), prop)
              IN  /\ ret' = value
                  /\ exc' = IF IsError(value) THEN value.exc ELSE "none"
                  /\ inst' = IF t = "inst" THEN AfterRead(inst, prop) ELSE inst
                  /\ sub' = IF t = "sub" THEN AfterRead(sub, prop) ELSE sub
                  /\ op' = Op("read", t, Slot(t).cls, NavOf(Slot(t)), prop)
    /\ UNCHANGED <<markers, calls>>

\* get_line_segment_list(band.plane_trace_coordinates)
LineSegments ==
    /\ \E t \in Targets :
         /\ Slot(t).cls = "KikuchiBand"
         /\ ~IsError(PlaneTraceCoordinates(Slot(t)))
         /\ ret' = GetLineSegmentList(PlaneTraceCoordinates(Slot(t)))
         /\ op' = Op("get_line_segment_list", t, Slot(t).cls, NavOf(Slot(t)),
                     "plane_trace_coordinates")
    /\ exc' = "none"
    /\ UNCHANGED <<inst, sub, markers, calls>>

Next ==
    \/ ConstructBand
    \/ ConstructZone
    \/ AssignRadius
    \/ GetItemStep
    \/ ReadProperty
    \/ LineSegments

Spec == Init /\ [][Next]_vars

(***************************************************************************)
(* The signal and its markers.                                             *)
(***************************************************************************)
MarkerKinds == {"line_segment", "point", "text"}

MarkerLists ==
    UNION {[1..k -> MarkerKinds] : k \in 0..2}

InitMarkers ==
    /\ inst = NoInstance
    /\ sub = NoInstance
    /\ op = Op("init", "inst", "None", <<>>, <<>>)
    /\ exc = "none"
    /\ ret = NoValue
    /\ markers \in {NoMarkers, [has |-> TRUE, items |-> EmptyNode]}
    /\ calls = <<>>

\* permanent_on_signal(signal, marker_list)
AddToSignal ==
    /\ \E marker_list \in MarkerLists :
         /\ Len(calls) + Len(marker_list) <= MaxMarkers
         /\ markers' = PermanentOnSignal(markers, marker_list)
         /\ calls' = calls \o marker_list
         /\ op' = Op("permanent_on_signal", "inst", "None", <<>>, marker_list)
    /\ UNCHANGED <<inst, sub, exc, ret>>

NextMarkers == AddToSignal

SpecMarkers == InitMarkers /\ [][NextMarkers]_vars

(***************************************************************************)
(* What the claims are stated about.                                       *)
(***************************************************************************)
\* The KikuchiBand and the ZoneAxis instances of the state.
Bands == {o \in {inst, sub} : o.cls = "KikuchiBand"}
Zones == {o \in {inst, sub} : o.cls = "ZoneAxis"}

\* The multi-indices of an array of the given shape, and the entry at one.
MultiIdx(shape) ==
    {p \in [1..Len(shape) -> 0..MaxNavLen] : \A k \in 1..Len(shape) : p[k] < shape[k]}

At(a, idx) == a.data[Ravel(idx, a.shape) + 1]

\* The detector array of an instance, whatever its class.
GeometryOf(o) == IF o.cls = "KikuchiBand" THEN o.hkl_detector ELSE o.coordinates

\* (x, y) lies on the circle of radius r about the origin:
\* x^2 + y^2 = r^2 for x = (x[1] + x[2] sqrt 3) / 2 and y likewise.
OnCircle(x, y, r) ==
    /\ x # NaNCoord
    /\ y # NaNCoord
    /\ x[1] * x[1] + 3 * x[2] * x[2] + y[1] * y[1] + 3 * y[2] * y[2] = 4 * r * r
    /\ x[1] * x[2] + y[1] * y[2] = 0

\* The entries (flat positions) where within_gnomonic_radius is true.
WithinOf(o) ==
    IF o.cls = "KikuchiBand" THEN WithinGnomonicRadius(o)
    ELSE ZoneWithinGnomonicRadius(o)

TrueSet(o) ==
    IF IsError(WithinOf(o)) THEN {}
    ELSE {i \in 1..Len(WithinOf(o).data) : WithinOf(o).data[i]}

\* The stored fields other than gnomonic_radius.
Frame(o) ==
    IF o = NoInstance THEN <<>>
    ELSE <<o.cls, o.phase, o.hkl, GeometryOf(o), o.in_pattern>>

(***************************************************************************)
(* C1.  Constructing a KikuchiBand with, or assigning to gnomonic_radius,  *)
(* a scalar or an array of exactly navigation_shape raises nothing, and    *)
(* the stored gnomonic_radius then has shape navigation_shape; a scalar is *)
(* broadcast to every pattern.  (The claim as stated.)                     *)
(***************************************************************************)
C1_RadiusAssignmentSucceeds ==
    (/\ op.name \in {"construct", "set_radius"}
     /\ op.cls = "KikuchiBand"
     /\ (op.arg.shape = <<>> \/ op.arg.shape = op.nav))
    => /\ exc = "none"
       /\ Slot(op.target).cls = "KikuchiBand"
       /\ Slot(op.target).gnomonic_radius.shape = op.nav
       /\ op.arg.shape = <<>> =>
            \A i \in 1..Prod(op.nav) :
                Slot(op.target).gnomonic_radius.data[i] = op.arg.data[1]
       /\ op.arg.shape = op.nav =>
            Slot(op.target).gnomonic_radius.data = op.arg.data

(***************************************************************************)
(* C2.  Indexing a KikuchiBand or a ZoneAxis with a navigation key returns *)
(* a new instance with the same phase and hkl whose stored hkl_detector    *)
(* (coordinates), in_pattern and gnomonic_radius each equal the original's *)
(* array sliced with the same key.  (The claim as stated.)                 *)
(***************************************************************************)
C2_IndexingSlicesEveryArray ==
    op.name = "getitem"
    => /\ exc = "none"
       /\ sub.phase = inst.phase
       /\ sub.hkl = inst.hkl
       /\ GeometryOf(sub) = GetItem(GeometryOf(inst), op.arg)
       /\ sub.in_pattern = GetItem(inst.in_pattern, op.arg)
       /\ sub.gnomonic_radius = GetItem(inst.gnomonic_radius, op.arg)

(***************************************************************************)
(* C3.  plane_trace_coordinates has shape navigation_shape + (n, 4), and   *)
(* for every entry with a finite hesse_alpha the two endpoints             *)
(* get_line_segment_list reads from it, (x1, y1) from components 0 and 1   *)
(* and (x2, y2) from components 2 and 3, lie on the circle of radius       *)
(* gnomonic_radius about the origin.  (The claim as stated.)               *)
(***************************************************************************)
C3_TraceEndpointsOnCircle ==
    op.name = "get_line_segment_list"
    => LET b == Slot(op.target)
           nav == NavigationShape(b)
       IN  /\ PlaneTraceCoordinates(b).shape = nav \o <<Size(b), 4>>
           /\ Len(ret) = Size(b)
           /\ \A i \in 1..Size(b) : \A p \in MultiIdx(nav) :
                IsFinite(At(HesseAlpha(b), p \o <<i - 1>>))
                => /\ OnCircle(At(ret[i].x1, p), At(ret[i].y1, p),
                               At(b.gnomonic_radius, p))
                   /\ OnCircle(At(ret[i].x2, p), At(ret[i].y2, p),
                               At(b.gnomonic_radius, p))

(***************************************************************************)
(* C4.  In every state the stored in_pattern of a KikuchiBand has shape    *)
(* navigation_shape + (n,), the shape of hkl_detector's data without its   *)
(* last axis.  (The claim as stated.)                                      *)
(***************************************************************************)
C4_InPatternShape ==
    \A b \in Bands :
        /\ b.in_pattern.shape = NavigationShape(b) \o <<Size(b)>>
        /\ b.in_pattern.shape = b.hkl_detector.shape

(***************************************************************************)
(* C5.  within_gnomonic_radius of a KikuchiBand has shape                  *)
(* navigation_shape + (n,) and is true for the plane i of the pattern p    *)
(* exactly when |hesse_distance| < gnomonic_radius[p] and                  *)
(* z_detector > -1e-5; it is false wherever z_detector <= -1e-5.           *)
(* |z / rho| < r is stated as |z| < r * rho.                               *)
(***************************************************************************)
C5_WithinGnomonicRadius ==
    \A b \in Bands :
        /\ ~IsError(WithinGnomonicRadius(b))
        /\ WithinGnomonicRadius(b).shape = NavigationShape(b) \o <<Size(b)>>
        /\ \A p \in MultiIdx(NavigationShape(b)) : \A i \in 0..(Size(b) - 1) :
             LET v == At(b.hkl_detector, p \o <<i>>)
                 r == At(b.gnomonic_radius, p)
                 within == At(WithinGnomonicRadius(b), p \o <<i>>)
             IN  /\ within <=> (AbsInt(v[3]) < r * Rho(v) /\ v[3] > -Eps)
                 /\ v[3] <= -Eps => ~within

\* A band of several patterns with an entry inside the circle that the
\* test on z_detector alone excludes, and an entry that is within.
C5_Witness ==
    \E b \in Bands :
        /\ Prod(NavigationShape(b)) > 1
        /\ \E i \in 1..Len(b.hkl_detector.data) :
             LET v == b.hkl_detector.data[i]
                 r == b.gnomonic_radius.data[((i - 1) \div Size(b)) + 1]
             IN  /\ v[3] <= -Eps
                 /\ AbsInt(v[3]) < r * Rho(v)
                 /\ ~WithinGnomonicRadius(b).data[i]
        /\ \E i \in 1..Len(b.hkl_detector.data) : WithinGnomonicRadius(b).data[i]

(***************************************************************************)
(* C6.  For every entry of a KikuchiBand, hesse_alpha is not-a-number if   *)
(* and only if within_gnomonic_radius is false there; where it is true,    *)
(* hesse_distance / gnomonic_radius lies in [-1, 1] and hesse_alpha is a   *)
(* finite value in [0, pi].                                                *)
(***************************************************************************)
C6_HesseAlphaNaNIffOutside ==
    \A b \in Bands :
        /\ ~IsError(HesseAlpha(b))
        /\ HesseAlpha(b).shape = WithinGnomonicRadius(b).shape
        /\ \A i \in 1..Len(HesseAlpha(b).data) :
             LET alpha == HesseAlpha(b).data[i]
                 within == WithinGnomonicRadius(b).data[i]
                 q == DivFI(HesseDistanceAt(b.hkl_detector.data[i]),
                            b.gnomonic_radius.data[((i - 1) \div Size(b)) + 1])
             IN  /\ IsNaN(alpha) <=> ~within
                 /\ within => /\ IsFinite(q) /\ AbsInt(q[1]) <= q[2]
                              /\ IsFinite(alpha)
                              /\ alpha[1] >= 0 * alpha[2]
                              /\ alpha[1] <= Pi * alpha[2]

\* A band with a finite hesse_alpha at one entry and, at another, a Hesse
\* distance below the radius masked because the entry is not within.
C6_Witness ==
    \E b \in Bands :
        /\ \E i \in 1..Len(HesseAlpha(b).data) : IsFinite(HesseAlpha(b).data[i])
        /\ \E i \in 1..Len(HesseAlpha(b).data) :
             /\ IsNaN(HesseAlpha(b).data[i])
             /\ LessFI(AbsF(HesseDistanceAt(b.hkl_detector.data[i])),
                       b.gnomonic_radius.data[((i - 1) \div Size(b)) + 1])

(***************************************************************************)
(* C7.  Assigning to gnomonic_radius a scalar not greater than any radius  *)
(* stored before completes, within_gnomonic_radius can be read afterwards, *)
(* and its true-set afterwards is a subset of the true-set before.         *)
(* (The claim as stated.)                                                  *)
(***************************************************************************)
C7_SmallerScalarShrinksTrueSet ==
    [][(/\ op'.name = "set_radius"
        /\ op'.arg.shape = <<>>
        /\ \A i \in 1..Len(Slot(op'.target).gnomonic_radius.data) :
              op'.arg.data[1] <= Slot(op'.target).gnomonic_radius.data[i])
       => /\ exc' = "none"
          /\ ~IsError(WithinOf(IF op'.target = "inst" THEN inst' ELSE sub'))
          /\ TrueSet(IF op'.target = "inst" THEN inst' ELSE sub')
                \subseteq TrueSet(Slot(op'.target))]_vars

C9_ZoneWithinEvaluates ==
    \A z \in Zones :
        /\ ~IsError(ZoneWithinGnomonicRadius(z))
        /\ ZoneWithinGnomonicRadius(z).shape = z.coordinates.shape
        /\ \A i \in 1..Len(z.coordinates.data) :
             LET v == z.coordinates.data[i]
                 r == IF Len(z.gnomonic_radius.data) = 1
                      THEN z.gnomonic_radius.data[1]
                      ELSE z.gnomonic_radius.data[((i - 1) \div Size(z)) + 1]
             IN  ZoneWithinGnomonicRadius(z).data[i]
                    <=> (v[3] > 0 /\ Rho(v) < r * v[3]) \/ (v[3] < 0 /\ r > 0)

(***************************************************************************)
(* C10.  Starting from metadata without a Markers node, or with an empty   *)
(* one, after any calls of permanent_on_signal with k markers in all the   *)
(* node holds exactly the keys marker0 .. marker(k-1), each bound to the   *)
(* marker passed at that position in call order.                           *)
(***************************************************************************)
C10_MarkersAppended ==
    /\ Len(calls) > 0 => markers.has
    /\ DOMAIN markers.items = 0..(Len(calls) - 1)
    /\ \A j \in DOMAIN markers.items : markers.items[j] = calls[j + 1]

\* Three markers are stored, the last added by a call of its own after
\* earlier calls stored a different marker under marker0.
C10_Witness ==
    /\ Len(calls) = 3
    /\ Len(op.arg) = 1
    /\ markers.items[2] = op.arg[1]
    /\ markers.items[0] # markers.items[2]
====
